---- MODULE Spec2Model ----
(***************************************************************************)
(* json-automerge-converter: the conversion boundary between JavaScript    *)
(* values and Automerge binary documents (src/src/jsonAutomergeConverter.ts)*)
(*                                                                         *)
(* JavaScript values are tagged records:                                   *)
(*   [k |-> "null"], [k |-> "undefined"], [k |-> "function"],              *)
(*   [k |-> "symbol"], [k |-> "boolean", b], [k |-> "number", n],          *)
(*   [k |-> "string", s], [k |-> "array", items |-> <<v, ...>>],           *)
(*   [k |-> "object", class, props |-> <<[key, val], ...>>]                *)
(*     class is the constructor the prototype chain supplies: "Object",    *)
(*     "Date", "RegExp", or "none" for Object.create(null); props are the  *)
(*     own enumerable properties in Object.values order,                   *)
(*   [k |-> "ref", up |-> n]: a reference to the n-th enclosing container  *)
(*     (n = 1: the container that holds it), i.e. a reference cycle.       *)
(***************************************************************************)
EXTENDS Integers, Sequences, FiniteSets, TLC

\* ------------------------------------------------------------------ bounds
\* Levels of nesting put around the base values the caller passes in.
MaxDepth == 2
\* Invocations of the core functions that are in flight together.
NumCalls == 2
\* writeJsonAsAutomerge / readAutomergeAsJson calls that are pending together.
NumTasks == 2

\* ------------------------------------------------------------------ values
Null == [k |-> "null"]
Undefined == [k |-> "undefined"]
Fn == [k |-> "function"]
Sym == [k |-> "symbol"]
Bool(b) == [k |-> "boolean", b |-> b]
Num(n) == [k |-> "number", n |-> n]
Str(s) == [k |-> "string", s |-> s]
Arr(items) == [k |-> "array", items |-> items]
Obj(class, props) == [k |-> "object", class |-> class, props |-> props]
Prop(key, val) == [key |-> key, val |-> val]
Ref(n) == [k |-> "ref", up |-> n]
DateObj == Obj("Date", <<>>)
RegExpObj == Obj("RegExp", <<>>)
PlainObj(props) == Obj("Object", props)

\* ------------------------------------------------------- the caller's inputs
\* Leaves of the test fixtures (TEST_FIXTURES.simple, TEST_FIXTURES.invalid).
Leaves ==
  {Null, Undefined, Bool(TRUE), Num(42), Str("hello"), Fn, Sym, DateObj, RegExpObj}

\* circular = {name: "test"}; circular.self = circular
Circular == PlainObj(<<Prop("a", Str("hello")), Prop("b", Ref(1))>>)
\* a cycle met before, and after, a Date in Object.values order
CircularThenDate == PlainObj(<<Prop("a", Ref(1)), Prop("b", DateObj)>>)
DateThenCircular == PlainObj(<<Prop("a", DateObj), Prop("b", Ref(1))>>)
\* JSON.parse('{"constructor": 1}')
ConstructorKeyed == PlainObj(<<Prop("constructor", Num(42))>>)
\* {date: new Date()} and {nullValue: null} of the fixtures
WithDate == PlainObj(<<Prop("a", DateObj)>>)
WithNull == PlainObj(<<Prop("a", Null)>>)

\* A leaf beside a valid sibling, on either side, in an array and in an object.
Sibling == Num(1)
PairedLeaves == {Null, Num(42), DateObj, Fn}
Pairs(v) ==
  { Arr(<<v, Sibling>>), Arr(<<Sibling, v>>),
    PlainObj(<<Prop("a", v), Prop("b", Sibling)>>),
    PlainObj(<<Prop("a", Sibling), Prop("b", v)>>) }

BaseValues ==
  Leaves
    \cup {Arr(<<>>), PlainObj(<<>>), Obj("none", <<>>),
          Circular, CircularThenDate, DateThenCircular, ConstructorKeyed}
    \cup UNION { Pairs(v) : v \in PairedLeaves }

\* One more level of nesting around v: as the element of an array, as the
\* value of an object.
Wrap(v) == { Arr(<<v>>), PlainObj(<<Prop("a", v)>>) }

RECURSIVE ValuesOfDepth(_)
ValuesOfDepth(d) ==
  IF d = 0 THEN BaseValues
  ELSE LET inner == ValuesOfDepth(d - 1)
       IN  inner \cup UNION { Wrap(v) : v \in inner }

JsonInputs == ValuesOfDepth(MaxDepth)

\* ------------------------------------------------------------ isValidJsonObject
\* The verdict is "true" or "false" when the function returns, "overflow" when
\* its recursion re-enters a container it is already inside (a reference cycle):
\* the recursion has no base case there and the call stack is exhausted
\* (RangeError: Maximum call stack size exceeded).
HasOwn(props, key) == \E i \in 1..Len(props) : props[i].key = key
OwnValue(props, key) == props[CHOOSE i \in 1..Len(props) : props[i].key = key].val

\* value.constructor: an own property shadows the prototype's.
\* "Object" is the Object function, "undefined" the missing property of a
\* prototype-less object, "other" anything else.
ConstructorOf(value) ==
  IF HasOwn(value.props, "constructor")
  THEN IF OwnValue(value.props, "constructor") = Undefined THEN "undefined" ELSE "other"
  ELSE CASE value.class = "Object" -> "Object"
         [] value.class = "none" -> "undefined"
         [] OTHER -> "other"

\* Object.values(value)
ObjectValues(props) == [i \in 1..Len(props) |-> props[i].val]

\* isValidJsonObject as it would be with a set of visited containers: a
\* container met again inside itself is refused
RECURSIVE isValidJsonObjectCycleSafe(_)
RECURSIVE everyValidCycleSafe(_, _)
everyValidCycleSafe(vals, i) ==
  IF i > Len(vals) THEN "true"
  ELSE LET r == isValidJsonObjectCycleSafe(vals[i])
       IN  IF r = "true" THEN everyValidCycleSafe(vals, i + 1) ELSE r
isValidJsonObjectCycleSafe(value) ==
  CASE value.k \in {"null", "undefined"} -> "false"
    [] value.k \in {"boolean", "number", "string"} -> "true"
    [] value.k = "array" -> everyValidCycleSafe(value.items, 1)
    [] value.k = "object" ->
         IF ConstructorOf(value) # "Object" /\ ConstructorOf(value) # "undefined"
         THEN "false"
         ELSE everyValidCycleSafe(ObjectValues(value.props), 1)
    [] OTHER -> "false"

RECURSIVE isValidJsonObject(_)
RECURSIVE everyValid(_, _)
\* Array.prototype.every with the validator as predicate: stops at the first
\* element that is not valid; an exception ends it as well.
everyValid(vals, i) ==
  IF i > Len(vals) THEN "true"
  ELSE LET r == isValidJsonObject(vals[i])
       IN  IF r = "true" THEN everyValid(vals, i + 1) ELSE r

isValidJsonObject(value) ==
  CASE value.k \in {"null", "undefined"} -> "false"
    [] value.k \in {"boolean", "number", "string"} -> "true"
    [] value.k = "array" -> everyValid(value.items, 1)
    [] value.k = "object" ->
         IF ConstructorOf(value) # "Object" /\ ConstructorOf(value) # "undefined"
         THEN "false"
         ELSE everyValid(ObjectValues(value.props), 1)
    [] value.k = "ref" -> "overflow"
    [] OTHER -> "false"

\* ------------------------------------------------------------------ actors
\* options.actor: absent, the 64-digit hex id of the fixtures, a token that is
\* not hex ("not-a-valid-hex-string"), the empty string, "a".repeat(1000).
NoActor == "<absent>"
ValidActor == "0123456789abcdef0123456789abcdef0123456789abcdef0123456789abcdef"
BadActor == "not-a-valid-hex-string"
EmptyActor == ""
LongActor == "a.repeat(1000)"
LongActorLength == 1000
\* The ids the engine draws for itself when no actor is given.
RandomActors == {"5c0e3a91", "d41b77f2"}
ActorChoices == {NoActor, ValidActor, BadActor}
EdgeActors == {EmptyActor, LongActor}

\* The characters of an actor token.
HexOrder == <<"0", "1", "2", "3", "4", "5", "6", "7",
              "8", "9", "a", "b", "c", "d", "e", "f">>
HexDigits == { HexOrder[i] : i \in 1..Len(HexOrder) }
ActorText(a) ==
  CASE a = ValidActor -> [i \in 1..64 |-> HexOrder[((i - 1) % Len(HexOrder)) + 1]]
    [] a = BadActor -> <<"n", "o", "t", "-", "a", "-", "v", "a", "l", "i", "d", "-",
                         "h", "e", "x", "-", "s", "t", "r", "i", "n", "g">>
    [] a = EmptyActor -> <<>>
    [] a = LongActor -> [i \in 1..LongActorLength |-> "a"]
    [] a = "5c0e3a91" -> <<"5", "c", "0", "e", "3", "a", "9", "1">>
    [] a = "d41b77f2" -> <<"d", "4", "1", "b", "7", "7", "f", "2">>

\* The engine reads the actor as hex bytes: an even number of hex digits.
IsHexActor(a) ==
  /\ a # NoActor
  /\ LET text == ActorText(a)
     IN  Len(text) % 2 = 0 /\ \A i \in 1..Len(text) : text[i] \in HexDigits

\* --------------------------------------------- the engine (@automerge/automerge)
\* The engine is the library behind A.from, A.save and A.load.  A document
\* is its actor and its root map; values inside a document are kept in the
\* materialised form the engine hands back: maps are plain objects with their
\* keys in the engine's order, timestamps are Date objects.
KeyOrder == <<"0", "1", "2", "3", "4", "a", "b", "constructor">>
KeyRank(key) == CHOOSE i \in 1..Len(KeyOrder) : KeyOrder[i] = key
CharsOf(s) == IF s = "hello" THEN <<"h", "e", "l", "l", "o">> ELSE <<s>>

SortedProps(props) ==
  [i \in 1..Len(props) |->
     props[CHOOSE j \in 1..Len(props) :
             Cardinality({m \in 1..Len(props) :
                            KeyRank(props[m].key) < KeyRank(props[j].key)}) = i - 1]]

Imported(val) == [ok |-> TRUE, val |-> val]
Rejected == [ok |-> FALSE, val |-> Null]

RECURSIVE importValue(_)
RECURSIVE importItems(_, _)
RECURSIVE importProps(_, _)
\* the elements of a list, in order; the first rejected element rejects the list
importItems(items, i) ==
  IF i > Len(items) THEN Imported(<<>>)
  ELSE LET head == importValue(items[i])
           rest == importItems(items, i + 1)
       IN  IF head.ok /\ rest.ok THEN Imported(<<head.val>> \o rest.val) ELSE Rejected

importProps(props, i) ==
  IF i > Len(props) THEN Imported(<<>>)
  ELSE LET head == importValue(props[i].val)
           rest == importProps(props, i + 1)
       IN  IF head.ok /\ rest.ok
           THEN Imported(<<Prop(props[i].key, head.val)>> \o rest.val)
           ELSE Rejected

\* What the engine does with a value assigned into a document: null, booleans,
\* numbers and strings are stored, a Date is stored as a timestamp, arrays and
\* plain objects are stored recursively; undefined, functions, symbols, other
\* objects and references back into the value being stored are refused.
importValue(value) ==
  CASE value.k \in {"null", "boolean", "number", "string"} -> Imported(value)
    [] value.k = "array" ->
         LET r == importItems(value.items, 1)
         IN  IF r.ok THEN Imported(Arr(r.val)) ELSE Rejected
    [] value.k = "object" /\ value.class = "Date" -> Imported(DateObj)
    [] value.k = "object" /\ value.class \in {"Object", "none"} ->
         LET r == importProps(value.props, 1)
         IN  IF r.ok THEN Imported(PlainObj(SortedProps(r.val))) ELSE Rejected
    [] OTHER -> Rejected

IndexKey(i) == KeyOrder[i]
\* The own enumerable properties Object.assign(doc, initialState) copies: the
\* properties of an object, the elements of an array under their indices, the
\* characters of a string under theirs, and nothing for any other value.
OwnEnumerable(value) ==
  CASE value.k = "object" -> value.props
    [] value.k = "array" ->
         [i \in 1..Len(value.items) |-> Prop(IndexKey(i), value.items[i])]
    [] value.k = "string" ->
         [i \in 1..Len(CharsOf(value.s)) |-> Prop(IndexKey(i), Str(CharsOf(value.s)[i]))]
    [] OTHER -> <<>>

\* A.from(initialState, actor) with the actor the document gets: the document,
\* or a refusal (the actor is not hex, or a property cannot be stored).
EngineFrom(value, actor) ==
  LET r == importProps(OwnEnumerable(value), 1)
  IN  IF IsHexActor(actor) /\ r.ok
      THEN [ok |-> TRUE, actor |-> actor, root |-> PlainObj(SortedProps(r.val))]
      ELSE [ok |-> FALSE, actor |-> actor, root |-> Null]

\* ---- A.save: the document as bytes
Magic == <<133, 111, 74, 131>>
ActorOrder == <<ValidActor, "5c0e3a91", "d41b77f2", EmptyActor, LongActor>>
StringOrder == <<"hello", "h", "e", "l", "o">>
CodeIn(order, x) == CHOOSE i \in 1..Len(order) : order[i] = x

Tag == [null |-> 0, boolean |-> 1, number |-> 2, string |-> 3,
        timestamp |-> 4, list |-> 5, map |-> 6]

RECURSIVE SaveValue(_)
RECURSIVE SaveItems(_, _)
RECURSIVE SaveProps(_, _)
SaveItems(items, i) ==
  IF i > Len(items) THEN <<>> ELSE SaveValue(items[i]) \o SaveItems(items, i + 1)
SaveProps(props, i) ==
  IF i > Len(props) THEN <<>>
  ELSE <<KeyRank(props[i].key)>> \o SaveValue(props[i].val) \o SaveProps(props, i + 1)
SaveValue(v) ==
  CASE v.k = "null" -> <<Tag.null>>
    [] v.k = "boolean" -> <<Tag.boolean, IF v.b THEN 1 ELSE 0>>
    [] v.k = "number" -> <<Tag.number, v.n>>
    [] v.k = "string" -> <<Tag.string, CodeIn(StringOrder, v.s)>>
    [] v.k = "array" -> <<Tag.list, Len(v.items)>> \o SaveItems(v.items, 1)
    [] v.k = "object" /\ v.class = "Date" -> <<Tag.timestamp>>
    [] OTHER -> <<Tag.map, Len(v.props)>> \o SaveProps(v.props, 1)

EngineSave(doc) == Magic \o <<CodeIn(ActorOrder, doc.actor)>> \o SaveValue(doc.root)

\* ---- A.load: bytes as a document
Parsed(val, next) == [ok |-> TRUE, val |-> val, next |-> next]
Unparsed == [ok |-> FALSE, val |-> Null, next |-> 0]

RECURSIVE LoadValue(_, _)
RECURSIVE LoadItems(_, _, _)
RECURSIVE LoadProps(_, _, _)
\* n values starting at bytes[i]
LoadItems(bytes, i, n) ==
  IF n = 0 THEN Parsed(<<>>, i)
  ELSE LET head == LoadValue(bytes, i)
       IN  IF ~head.ok THEN Unparsed
           ELSE LET rest == LoadItems(bytes, head.next, n - 1)
                IN  IF rest.ok THEN Parsed(<<head.val>> \o rest.val, rest.next)
                    ELSE Unparsed
\* n (key, value) pairs starting at bytes[i]
LoadProps(bytes, i, n) ==
  IF n = 0 THEN Parsed(<<>>, i)
  ELSE IF i > Len(bytes) \/ bytes[i] \notin 1..Len(KeyOrder) THEN Unparsed
  ELSE LET head == LoadValue(bytes, i + 1)
       IN  IF ~head.ok THEN Unparsed
           ELSE LET rest == LoadProps(bytes, head.next, n - 1)
                IN  IF rest.ok
                    THEN Parsed(<<Prop(KeyOrder[bytes[i]], head.val)>> \o rest.val, rest.next)
                    ELSE Unparsed
\* the value starting at bytes[i]
LoadValue(bytes, i) ==
  IF i > Len(bytes) THEN Unparsed
  ELSE CASE bytes[i] = Tag.null -> Parsed(Null, i + 1)
         [] bytes[i] = Tag.timestamp -> Parsed(DateObj, i + 1)
         [] bytes[i] \in {Tag.boolean, Tag.number, Tag.string, Tag.list, Tag.map}
              /\ i + 1 > Len(bytes) -> Unparsed
         [] bytes[i] = Tag.boolean ->
              IF bytes[i + 1] \in {0, 1} THEN Parsed(Bool(bytes[i + 1] = 1), i + 2)
              ELSE Unparsed
         [] bytes[i] = Tag.number -> Parsed(Num(bytes[i + 1]), i + 2)
         [] bytes[i] = Tag.string ->
              IF bytes[i + 1] \in 1..Len(StringOrder)
              THEN Parsed(Str(StringOrder[bytes[i + 1]]), i + 2)
              ELSE Unparsed
         [] bytes[i] = Tag.list ->
              LET r == LoadItems(bytes, i + 2, bytes[i + 1])
              IN  IF r.ok THEN Parsed(Arr(r.val), r.next) ELSE Unparsed
         [] bytes[i] = Tag.map ->
              LET r == LoadProps(bytes, i + 2, bytes[i + 1])
              IN  IF r.ok THEN Parsed(PlainObj(r.val), r.next) ELSE Unparsed
         [] OTHER -> Unparsed

HasMagic(bytes) ==
  Len(bytes) > Len(Magic) + 1 /\ \A i \in 1..Len(Magic) : bytes[i] = Magic[i]

\* A.load(bytes, actor): zero bytes load as a new, empty document ("Empty
\* binary actually returns valid empty document in Automerge"); anything else
\* must be a whole saved document.  An actor that is given must be hex.
EngineLoad(bytes, actor) ==
  LET header == Len(Magic) + 1
      body == LoadValue(bytes, header + 1)
  IN  IF actor # NoActor /\ ~IsHexActor(actor) THEN [ok |-> FALSE, root |-> Null]
      ELSE IF Len(bytes) = 0 THEN [ok |-> TRUE, root |-> PlainObj(<<>>)]
      ELSE IF HasMagic(bytes)
              /\ bytes[header] \in 1..Len(ActorOrder)
              /\ bytes[header + 1] = Tag.map
              /\ body.ok /\ body.next = Len(bytes) + 1
           THEN [ok |-> TRUE, root |-> body.val]
           ELSE [ok |-> FALSE, root |-> Null]

\* ------------------------------------------------------------- the core API
\* ConversionOptions: validateJson is "absent", "false" or "true".
Options(actor, validateJson) == [actor |-> actor, validateJson |-> validateJson]
NoOptions == Options(NoActor, "absent")
AllOptions ==
  { Options(a, v) : a \in ActorChoices, v \in {"absent", "false", "true"} }
    \cup { Options(a, "absent") : a \in EdgeActors }
ValidateOnly == Options(NoActor, "true")

NoError == "none"
ValidationError == "Invalid JSON object: must be a plain object or array"
StackOverflow == "RangeError: Maximum call stack size exceeded"
EngineFromError == "A.from threw"
EngineLoadError == "A.load threw"
Nothing == [k |-> "nothing"]
\* the actor argument of an engine call that was not made
NotCalled == "<not called>"

\* jsonToAutomerge as it would be with the engine called before the check
jsonToAutomergeEngineFirst(value, options, drawn) ==
  LET verdict == IF options.validateJson = "true"
                 THEN isValidJsonObject(value) ELSE "not_run"
      doc == EngineFrom(value, IF options.actor = NoActor THEN drawn ELSE options.actor)
  IN  CASE ~doc.ok ->
             [thrown |-> EngineFromError, binary |-> <<>>, verdict |-> verdict,
              calls |-> <<"from">>, handed |-> value,
              actorArg |-> options.actor]
        [] verdict = "overflow" ->
             [thrown |-> StackOverflow, binary |-> <<>>, verdict |-> verdict,
              calls |-> <<"from">>, handed |-> value,
              actorArg |-> options.actor]
        [] verdict = "false" ->
             [thrown |-> ValidationError, binary |-> <<>>, verdict |-> verdict,
              calls |-> <<"from">>, handed |-> value,
              actorArg |-> options.actor]
        [] OTHER ->
             [thrown |-> NoError, binary |-> EngineSave(doc), verdict |-> verdict,
              calls |-> <<"from", "save">>, handed |-> value,
              actorArg |-> options.actor]

\* jsonToAutomerge as it would be with the check made whatever validateJson is
jsonToAutomergeAlwaysValidates(value, options, drawn) ==
  LET verdict == isValidJsonObject(value)
      doc == EngineFrom(value, IF options.actor = NoActor THEN drawn ELSE options.actor)
  IN  CASE verdict = "overflow" ->
             [thrown |-> StackOverflow, binary |-> <<>>, verdict |-> verdict,
              calls |-> <<>>, handed |-> Nothing,
              actorArg |-> NotCalled]
        [] verdict = "false" ->
             [thrown |-> ValidationError, binary |-> <<>>, verdict |-> verdict,
              calls |-> <<>>, handed |-> Nothing,
              actorArg |-> NotCalled]
        [] OTHER ->
             IF doc.ok
             THEN [thrown |-> NoError, binary |-> EngineSave(doc), verdict |-> verdict,
                   calls |-> <<"from", "save">>, handed |-> value,
              actorArg |-> options.actor]
             ELSE [thrown |-> EngineFromError, binary |-> <<>>, verdict |-> verdict,
                   calls |-> <<"from">>, handed |-> value,
              actorArg |-> options.actor]

\* jsonToAutomerge as it would be if it caught the engine's refusal and tried
\* again without the actor
jsonToAutomergeDefaultActor(value, options, drawn) ==
  LET verdict == IF options.validateJson = "true"
                 THEN isValidJsonObject(value) ELSE "not_run"
      doc == EngineFrom(value, IF options.actor = NoActor THEN drawn ELSE options.actor)
      again == EngineFrom(value, CHOOSE a \in RandomActors : TRUE)
  IN  CASE verdict = "overflow" ->
             [thrown |-> StackOverflow, binary |-> <<>>, verdict |-> verdict,
              calls |-> <<>>, handed |-> Nothing,
              actorArg |-> NotCalled]
        [] verdict = "false" ->
             [thrown |-> ValidationError, binary |-> <<>>, verdict |-> verdict,
              calls |-> <<>>, handed |-> Nothing,
              actorArg |-> NotCalled]
        [] doc.ok ->
             [thrown |-> NoError, binary |-> EngineSave(doc), verdict |-> verdict,
              calls |-> <<"from", "save">>, handed |-> value,
              actorArg |-> options.actor]
        [] again.ok ->
             [thrown |-> NoError, binary |-> EngineSave(again), verdict |-> verdict,
              calls |-> <<"from", "from", "save">>, handed |-> value,
              actorArg |-> options.actor]
        [] OTHER ->
             [thrown |-> EngineFromError, binary |-> <<>>, verdict |-> verdict,
              calls |-> <<"from", "from">>, handed |-> value,
              actorArg |-> options.actor]

\* jsonToAutomerge as it would be with a length check of its own on the actor
jsonToAutomergeActorLimit(value, options, drawn) ==
  LET verdict == IF options.validateJson = "true"
                 THEN isValidJsonObject(value) ELSE "not_run"
      doc == EngineFrom(value, IF options.actor = NoActor THEN drawn ELSE options.actor)
      tooLong == options.actor # NoActor /\ Len(ActorText(options.actor)) > 64
  IN  CASE verdict = "overflow" ->
             [thrown |-> StackOverflow, binary |-> <<>>, verdict |-> verdict,
              calls |-> <<>>, handed |-> Nothing,
              actorArg |-> NotCalled]
        [] verdict = "false" ->
             [thrown |-> ValidationError, binary |-> <<>>, verdict |-> verdict,
              calls |-> <<>>, handed |-> Nothing,
              actorArg |-> NotCalled]
        [] doc.ok /\ ~tooLong ->
             [thrown |-> NoError, binary |-> EngineSave(doc), verdict |-> verdict,
              calls |-> <<"from", "save">>, handed |-> value,
              actorArg |-> options.actor]
        [] OTHER ->
             [thrown |-> EngineFromError, binary |-> <<>>, verdict |-> verdict,
              calls |-> <<"from">>, handed |-> value,
              actorArg |-> options.actor]

\* jsonToAutomerge as it would be if the validated path made the document
\* without the actor
jsonToAutomergeValidatedNoActor(value, options, drawn) ==
  LET validated == options.validateJson = "true"
      verdict == IF validated THEN isValidJsonObject(value) ELSE "not_run"
      doc == EngineFrom(value, IF options.actor = NoActor \/ validated
                               THEN (IF drawn \in RandomActors THEN drawn
                                     ELSE CHOOSE a \in RandomActors : TRUE)
                               ELSE options.actor)
  IN  CASE verdict = "overflow" ->
             [thrown |-> StackOverflow, binary |-> <<>>, verdict |-> verdict,
              calls |-> <<>>, handed |-> Nothing,
              actorArg |-> NotCalled]
        [] verdict = "false" ->
             [thrown |-> ValidationError, binary |-> <<>>, verdict |-> verdict,
              calls |-> <<>>, handed |-> Nothing,
              actorArg |-> NotCalled]
        [] doc.ok ->
             [thrown |-> NoError, binary |-> EngineSave(doc), verdict |-> verdict,
              calls |-> <<"from", "save">>, handed |-> value,
              actorArg |-> IF validated THEN NoActor ELSE options.actor]
        [] OTHER ->
             [thrown |-> EngineFromError, binary |-> <<>>, verdict |-> verdict,
              calls |-> <<"from">>, handed |-> value,
              actorArg |-> IF validated THEN NoActor ELSE options.actor]

\* jsonToAutomerge(json, options); drawn is the actor id the engine draws when
\* options.actor is absent.  The result tells what the call threw, the binary
\* it returned, the validator's verdict ("not_run" when it was not called), the
\* engine calls it made and the value it handed to A.from.
jsonToAutomerge(value, options, drawn) ==
  LET verdict == IF options.validateJson = "true"
                 THEN isValidJsonObject(value) ELSE "not_run"
      doc == EngineFrom(value, IF options.actor = NoActor THEN drawn ELSE options.actor)
  IN  CASE verdict = "overflow" ->
             [thrown |-> StackOverflow, binary |-> <<>>, verdict |-> verdict,
              calls |-> <<>>, handed |-> Nothing,
              actorArg |-> NotCalled]
        [] verdict = "false" ->
             [thrown |-> ValidationError, binary |-> <<>>, verdict |-> verdict,
              calls |-> <<>>, handed |-> Nothing,
              actorArg |-> NotCalled]
        [] OTHER ->
             IF doc.ok
             THEN [thrown |-> NoError, binary |-> EngineSave(doc), verdict |-> verdict,
                   calls |-> <<"from", "save">>, handed |-> value,
              actorArg |-> options.actor]
             ELSE [thrown |-> EngineFromError, binary |-> <<>>, verdict |-> verdict,
                   calls |-> <<"from">>, handed |-> value,
              actorArg |-> options.actor]

\* automergeToJson as it would be if the load took the buffer over (a
\* transferred ArrayBuffer is detached: the caller's bytes are gone)
automergeToJsonDetaching(bytes, options) ==
  LET doc == EngineLoad(bytes, options.actor)
  IN  IF doc.ok
      THEN [thrown |-> NoError, value |-> doc.root, calls |-> <<"load">>,
            actorArg |-> options.actor, bytes |-> <<>>]
      ELSE [thrown |-> EngineLoadError, value |-> Nothing, calls |-> <<"load">>,
            actorArg |-> options.actor, bytes |-> <<>>]

\* automergeToJson(binary, options).  The result tells what the call threw,
\* the value it returned, the engine calls it made, the actor argument it
\* passed to A.load and the caller's bytes after the call.
automergeToJson(bytes, options) ==
  LET doc == EngineLoad(bytes, options.actor)
  IN  IF doc.ok
      THEN [thrown |-> NoError, value |-> doc.root, calls |-> <<"load">>,
            actorArg |-> options.actor, bytes |-> bytes]
      ELSE [thrown |-> EngineLoadError, value |-> Nothing, calls |-> <<"load">>,
            actorArg |-> options.actor, bytes |-> bytes]

\* validateAutomergeBinary(binary): decode with no options inside try/catch
validateAutomergeBinary(bytes) ==
  automergeToJson(bytes, NoOptions).thrown = NoError

\* ---- the repo
\* new Repo({storage: undefined, network: []}): the repo, or the error of a
\* runtime in which it cannot be made
RepoError == "new Repo threw"
ImportError == "repo.import threw"
NewRepo(works) == [thrown |-> IF works THEN NoError ELSE RepoError]
\* repo.import(binary): the repo loads the bytes as a saved document and puts
\* the document under a new handle, which is ready at once
RepoImport(bytes) ==
  LET doc == EngineLoad(bytes, NoActor)
  IN  IF doc.ok THEN [thrown |-> NoError, handle |-> [ready |-> TRUE, doc |-> doc.root]]
      ELSE [thrown |-> ImportError, handle |-> [ready |-> FALSE, doc |-> Null]]

\* testRepoCompatibility as it would be without its try/catch
testRepoCompatibilityUncaught(bytes, works) ==
  LET repo == NewRepo(works)
      imported == RepoImport(bytes)
  IN  CASE repo.thrown # NoError ->
             [settled |-> "rejected", steps |-> <<"new Repo">>]
        [] imported.thrown # NoError ->
             [settled |-> "rejected", steps |-> <<"new Repo", "import">>]
        [] OTHER ->
             [settled |-> IF imported.handle.ready THEN "true" ELSE "false",
              steps |-> <<"new Repo", "import", "isReady">>]

\* testRepoCompatibility(binary): what the promise settled with ("true",
\* "false", "rejected") and the steps it took; works tells whether a repo can
\* be made in this runtime
testRepoCompatibility(bytes, works) ==
  LET repo == NewRepo(works)
      imported == RepoImport(bytes)
  IN  CASE repo.thrown # NoError ->
             [settled |-> "false", steps |-> <<"new Repo">>]
        [] imported.thrown # NoError ->
             [settled |-> "false", steps |-> <<"new Repo", "import">>]
        [] OTHER ->
             [settled |-> IF imported.handle.ready THEN "true" ELSE "false",
              steps |-> <<"new Repo", "import", "isReady">>]

\* jsonToRepoCompatible(json, options)
jsonToRepoCompatible(value, options, drawn) == jsonToAutomerge(value, options, drawn)

\* ------------------------------------------------------------------- state
\* Bytes the caller did not get from jsonToAutomerge: EMPTY_BINARY,
\* INVALID_BINARIES.random, INVALID_BINARIES.truncated, and a saved document
\* cut after its header.
UntrustedBinaries == { <<>>, <<1, 2, 3, 4, 5>>, <<133, 1, 0>>, Magic }

VARIABLES
  json,         \* the value the caller converts
  binary,       \* the bytes the caller holds
  origin,       \* where binary came from: "untrusted", or "encode" with its options
  op,           \* the last call: "none" or the function's name
  opts,         \* the options of the last call
  thrown,       \* what the last call threw, NoError if it returned
  verdict,      \* isValidJsonObject's verdict in the last call, "not_run" if not called
  engineCalls,  \* the engine calls the last call made
  engineActor,  \* the actor argument of the last call's engine call
  handed,       \* the value the last call handed to A.from, Nothing if none
  decoded,      \* what the last automergeToJson returned, Nothing if none
  probe,        \* what the last validateAutomergeBinary returned: "none", "true", "false"
  repeat,       \* the outcome of the same jsonToAutomerge call made once more
  probes,       \* every probe so far: the bytes it was given and its verdict
  decodes,      \* every decode so far: the bytes, the actor, the outcome
  compat        \* the last testRepoCompatibility: whether a repo could be made,
                \* what the promise settled with, the steps taken

coreVars == <<json, binary, origin, op, opts, thrown, verdict, engineCalls,
              engineActor, handed, decoded, probe, repeat, probes, decodes,
              compat>>

\* Invocations of jsonToAutomerge and automergeToJson running side by side,
\* each with its own frame: the function, its arguments, where it is
\* ("idle", "entered", "validated", "created", "done"), its local doc, what it
\* gave back, and whether another invocation was in flight while it ran.
VARIABLE calls

\* The file system under Deno.writeFile / Deno.readFile, and its callers.
VARIABLES
  files,        \* path -> the file there: whether it exists, and its bytes
  lastWrite,    \* path -> the last write that reached it: value, bytes, options,
                \*         and whether writes to the path were ever pending together
  fileOp,       \* the last awaited file operation and how it ended
  tasks,        \* the file operations pending together, each with its frame
  cli           \* a run of the command line tool: its arguments, its standard
                \* input, where it is, what it wrote, how it exited

fileVars == <<files, lastWrite, fileOp, tasks, cli>>

vars == <<coreVars, calls, fileVars>>

CallIds == 1..NumCalls
IdleFrame ==
  [fn |-> "none", value |-> Nothing, bytes |-> <<>>, options |-> NoOptions,
   pc |-> "idle", drawn |-> NoActor, doc |-> Nothing, out |-> Nothing,
   mixed |-> FALSE]
NoCalls == calls = [c \in CallIds |-> IdleFrame]

\* ---- the storage layer
\* The paths of the tests: a file in a fresh temporary directory, a second one
\* beside it, an empty file, a file of bytes that are no document, a path
\* whose directory does not exist, a path in a directory made read-only.
TestFile == "test.automerge"
OtherFile == "other.automerge"
EmptyFile == "empty.automerge"
CorruptedFile == "corrupted.automerge"
MissingDirFile == "/nonexistent/directory/file.automerge"
ReadOnlyDirFile == "readonly/test.automerge"
Paths == {TestFile, OtherFile, EmptyFile, CorruptedFile, MissingDirFile, ReadOnlyDirFile}
DirState(path) ==
  CASE path = MissingDirFile -> "missing"
    [] path = ReadOnlyDirFile -> "readonly"
    [] OTHER -> "writable"

NotFound == "NotFound: No such file or directory"
PermissionDenied == "PermissionDenied: Permission denied"

NoFile == [exists |-> FALSE, bytes |-> <<>>]
File(bytes) == [exists |-> TRUE, bytes |-> bytes]
InitialFiles ==
  [p \in Paths |->
     CASE p = EmptyFile -> File(<<>>)
       [] p = CorruptedFile -> File(<<1, 2, 3, 4, 5>>)
       [] OTHER -> NoFile]

\* Deno.writeFile, first half: the file is opened for writing, created if it
\* is not there and cut to length zero
OpenTruncate(fs, path) ==
  CASE DirState(path) = "missing" -> [error |-> NotFound, fs |-> fs]
    [] DirState(path) = "readonly" -> [error |-> PermissionDenied, fs |-> fs]
    [] OTHER -> [error |-> NoError, fs |-> [fs EXCEPT ![path] = File(<<>>)]]
\* Deno.writeFile, second half: the bytes are written from offset 0 of the
\* opened file; what another writer put beyond them stays
WriteAll(fs, path, bytes) ==
  [fs EXCEPT ![path] =
     File(bytes \o SubSeq(fs[path].bytes, Len(bytes) + 1, Len(fs[path].bytes)))]
\* await Deno.writeFile(path, bytes) with no other writer in between
DenoWriteFile(fs, path, bytes) ==
  LET opened == OpenTruncate(fs, path)
  IN  IF opened.error = NoError
      THEN [error |-> NoError, fs |-> WriteAll(opened.fs, path, bytes)]
      ELSE opened
\* await Deno.readFile(path)
DenoReadFile(fs, path) ==
  IF fs[path].exists THEN [error |-> NoError, bytes |-> fs[path].bytes]
  ELSE [error |-> NotFound, bytes |-> <<>>]

\* writeJsonAsAutomerge as it would be if the file were opened before the
\* value is converted
writeJsonAsAutomergeOpenFirst(fs, value, path, options, drawn) ==
  LET opened == OpenTruncate(fs, path)
      encoded == jsonToAutomerge(value, options, drawn)
  IN  CASE opened.error # NoError ->
             [thrown |-> opened.error, fs |-> fs, io |-> 1, binary |-> <<>>]
        [] encoded.thrown # NoError ->
             [thrown |-> encoded.thrown, fs |-> opened.fs, io |-> 1, binary |-> <<>>]
        [] OTHER ->
             [thrown |-> NoError, fs |-> WriteAll(opened.fs, path, encoded.binary),
              io |-> 1, binary |-> encoded.binary]

\* writeJsonAsAutomerge(json, filePath, options): what it rejected with, the
\* file system after it, the I/O calls it made, the binary it wrote
writeJsonAsAutomerge(fs, value, path, options, drawn) ==
  LET encoded == jsonToAutomerge(value, options, drawn)
      write == DenoWriteFile(fs, path, encoded.binary)
  IN  IF encoded.thrown # NoError
      THEN [thrown |-> encoded.thrown, fs |-> fs, io |-> 0, binary |-> <<>>]
      ELSE [thrown |-> write.error, fs |-> write.fs, io |-> 1,
            binary |-> encoded.binary]

\* readAutomergeAsJson(filePath, options): what it rejected with, the value it
\* resolved to, the I/O calls it made
readAutomergeAsJson(fs, path, options) ==
  LET read == DenoReadFile(fs, path)
      restored == automergeToJson(read.bytes, options)
  IN  IF read.error # NoError
      THEN [thrown |-> read.error, value |-> Nothing, io |-> 1]
      ELSE [thrown |-> restored.thrown, value |-> restored.value, io |-> 1]

NoWrite == [value |-> Nothing, bytes |-> <<>>, options |-> NoOptions, raced |-> FALSE]
\* what jsonToAutomerge throws
ConversionErrors == {ValidationError, StackOverflow, EngineFromError}
\* the path of a write whose conversion failed, for the next operation to look
\* back on
NoPath == "<none>"
FailedWriteOf(o) ==
  IF o.fn = "writeJsonAsAutomerge" /\ o.thrown \in ConversionErrors
  THEN o.path ELSE NoPath
NoFileOp ==
  [fn |-> "none", path |-> TestFile, value |-> Nothing, options |-> NoOptions,
   thrown |-> NoError, result |-> Nothing, io |-> 0, before |-> NoFile,
   prev |-> NoPath]
TaskIds == 1..NumTasks
IdleTask ==
  [fn |-> "none", path |-> TestFile, value |-> Nothing, options |-> NoOptions,
   pc |-> "idle", bytes |-> <<>>, thrown |-> NoError, result |-> Nothing,
   expect |-> Nothing, quiet |-> FALSE]
\* CliOptions; an option that was not given is undefined
Absent == "<undefined>"
NoCliOptions ==
  [input |-> Absent, output |-> Absent, actor |-> NoActor, validate |-> FALSE,
   test |-> FALSE, help |-> FALSE]
\* the tool before it is started
NoRun ==
  [argv |-> <<>>, stdin |-> "", works |-> TRUE, pc |-> "idle", command |-> "",
   options |-> NoCliOptions, text |-> "", value |-> Nothing, binary |-> <<>>,
   trace |-> <<>>, stdout |-> <<>>, stderr |-> <<>>, exit |-> {}]
FilesAtRest ==
  /\ files = InitialFiles
  /\ lastWrite = [p \in Paths |-> NoWrite]
  /\ fileOp = NoFileOp
  /\ tasks = [t \in TaskIds |-> IdleTask]
  /\ cli = NoRun

NotTested == [works |-> TRUE, settled |-> "none", steps |-> <<>>]

Init ==
  /\ json \in JsonInputs
  /\ binary \in UntrustedBinaries
  /\ origin = [src |-> "untrusted", opts |-> NoOptions]
  /\ op = "none"
  /\ opts = NoOptions
  /\ thrown = NoError
  /\ verdict = "not_run"
  /\ engineCalls = <<>>
  /\ engineActor = NotCalled
  /\ handed = Nothing
  /\ decoded = Nothing
  /\ probe = "none"
  /\ repeat = Nothing
  /\ probes = {}
  /\ decodes = {}
  /\ compat = NotTested
  /\ NoCalls
  /\ FilesAtRest

\* const binary = jsonToAutomerge(json, options)
CallJsonToAutomerge ==
  \E options \in AllOptions :
  \E drawn \in IF options.actor = NoActor THEN RandomActors ELSE {options.actor} :
    LET out == jsonToAutomerge(json, options, drawn)
    IN  /\ op = "none"
        /\ op' = "jsonToAutomerge"
        /\ opts' = options
        /\ thrown' = out.thrown
        /\ verdict' = out.verdict
        /\ engineCalls' = out.calls
        /\ engineActor' = out.actorArg
        /\ handed' = out.handed
        /\ binary' = IF out.thrown = NoError THEN out.binary ELSE binary
        /\ origin' = IF out.thrown = NoError
                     THEN [src |-> "encode", opts |-> options] ELSE origin
        /\ decoded' = Nothing
        /\ probe' = "none"
        /\ compat' = NotTested
        /\ UNCHANGED <<json, repeat, probes, decodes, calls, fileVars>>

\* jsonToAutomerge(json, options) once more, with the value and the options of
\* the call before; the caller keeps the first call's binary
CallJsonToAutomergeAgain ==
  \E drawn \in IF opts.actor = NoActor THEN RandomActors ELSE {opts.actor} :
    LET out == jsonToAutomerge(json, opts, drawn)
    IN  /\ op = "jsonToAutomerge"
        /\ op' = "jsonToAutomergeAgain"
        /\ repeat' = [thrown |-> out.thrown, binary |-> out.binary]
        /\ UNCHANGED <<json, binary, origin, opts, thrown, verdict, engineCalls,
                       engineActor, handed, decoded, probe, probes, decodes, compat,
                       calls, fileVars>>

\* const restored = automergeToJson(binary, options)
CallAutomergeToJson ==
  \E actor \in ActorChoices :
    LET out == automergeToJson(binary, Options(actor, "absent"))
    IN  /\ thrown = NoError
        /\ op' = "automergeToJson"
        /\ opts' = Options(actor, "absent")
        /\ thrown' = out.thrown
        /\ verdict' = "not_run"
        /\ engineCalls' = out.calls
        /\ engineActor' = out.actorArg
        /\ handed' = Nothing
        /\ decoded' = out.value
        /\ probe' = "none"
        /\ repeat' = Nothing
        /\ binary' = out.bytes
        /\ decodes' = decodes \cup {[bytes |-> binary, actor |-> actor,
                                     thrown |-> out.thrown, value |-> out.value]}
        /\ compat' = NotTested
        /\ UNCHANGED <<json, origin, probes, calls, fileVars>>

\* const isValid = validateAutomergeBinary(binary)
CallValidateAutomergeBinary ==
  LET result == IF validateAutomergeBinary(binary) THEN "true" ELSE "false"
  IN  /\ thrown = NoError
      /\ op' = "validateAutomergeBinary"
      /\ opts' = NoOptions
      /\ thrown' = NoError
      /\ verdict' = "not_run"
      /\ engineCalls' = <<"load">>
      /\ engineActor' = NoActor
      /\ handed' = Nothing
      /\ decoded' = Nothing
      /\ probe' = result
      /\ repeat' = Nothing
      /\ binary' = automergeToJson(binary, NoOptions).bytes
      /\ probes' = probes \cup {[bytes |-> binary, verdict |-> result]}
      /\ compat' = NotTested
      /\ UNCHANGED <<json, origin, decodes, calls, fileVars>>

\* const isCompatible = await testRepoCompatibility(binary)
CallTestRepoCompatibility ==
  \E works \in BOOLEAN :
    LET out == testRepoCompatibility(binary, works)
    IN  /\ thrown = NoError
        /\ op' = "testRepoCompatibility"
        /\ opts' = NoOptions
        /\ thrown' = NoError
        /\ verdict' = "not_run"
        /\ engineCalls' = <<>>
        /\ engineActor' = NotCalled
        /\ handed' = Nothing
        /\ decoded' = Nothing
        /\ probe' = "none"
        /\ repeat' = Nothing
        /\ compat' = [works |-> works, settled |-> out.settled, steps |-> out.steps]
        /\ UNCHANGED <<json, binary, origin, probes, decodes, calls, fileVars>>

Next ==
  \/ CallJsonToAutomerge
  \/ CallJsonToAutomergeAgain
  \/ CallAutomergeToJson
  \/ CallValidateAutomergeBinary
  \/ CallTestRepoCompatibility

Spec == Init /\ [][Next]_vars

\* ------------------------------------------- invocations running side by side
\* What the invocations are given.
ParValues == {WithNull, WithDate, Circular, Null}
ParOptions == {NoOptions, ValidateOnly, Options(BadActor, "absent")}
ParBinaries == {<<>>, <<1, 2, 3, 4, 5>>, EngineSave(EngineFrom(WithNull, ValidActor))}

InFlight(c) == calls[c].pc \notin {"idle", "done"}
\* the frame of c after a step: it notes whether another invocation is in flight
Stepped(c, frame) ==
  [calls EXCEPT ![c] =
     [frame EXCEPT !.mixed = calls[c].mixed \/ \E d \in CallIds \ {c} : InFlight(d)]]
Finished(frame, thrownBy, result) ==
  [frame EXCEPT !.pc = "done", !.out = [thrown |-> thrownBy, result |-> result]]

\* const doc: the document line 27 saves is the one line 26 of the same
\* invocation made
DocToSaveShared(c) ==
  calls[CHOOSE d \in CallIds : calls[d].pc = "created"].doc
DocToSave(c) == calls[c].doc

\* the single caller of the core has made no call
CoreAtRest ==
  /\ json = Null
  /\ binary = <<>>
  /\ origin = [src |-> "untrusted", opts |-> NoOptions]
  /\ op = "none"
  /\ opts = NoOptions
  /\ thrown = NoError
  /\ verdict = "not_run"
  /\ engineCalls = <<>>
  /\ engineActor = NotCalled
  /\ handed = Nothing
  /\ decoded = Nothing
  /\ probe = "none"
  /\ repeat = Nothing
  /\ probes = {}
  /\ decodes = {}
  /\ compat = NotTested

ParInit == CoreAtRest /\ NoCalls /\ FilesAtRest
  /\ FilesAtRest

\* jsonToAutomerge(value, options) is entered
EnterJsonToAutomerge(c) ==
  \E value \in ParValues, options \in ParOptions :
    /\ calls[c].pc = "idle"
    /\ calls' = Stepped(c, [IdleFrame EXCEPT !.fn = "jsonToAutomerge", !.value = value,
                                             !.options = options, !.pc = "entered"])
    /\ UNCHANGED <<coreVars, fileVars>>

\* automergeToJson(bytes, options) is entered
EnterAutomergeToJson(c) ==
  \E bytes \in ParBinaries, actor \in {NoActor, BadActor} :
    /\ calls[c].pc = "idle"
    /\ calls' = Stepped(c, [IdleFrame EXCEPT !.fn = "automergeToJson", !.bytes = bytes,
                                             !.options = Options(actor, "absent"),
                                             !.pc = "entered"])
    /\ UNCHANGED <<coreVars, fileVars>>

\* line 22-24: if (options.validateJson && !isValidJsonObject(json)) throw
StepValidate(c) ==
  LET frame == calls[c]
      result == IF frame.options.validateJson = "true"
                THEN isValidJsonObject(frame.value) ELSE "not_run"
  IN  /\ frame.fn = "jsonToAutomerge" /\ frame.pc = "entered"
      /\ calls' = Stepped(c,
           CASE result = "overflow" -> Finished(frame, StackOverflow, <<>>)
             [] result = "false" -> Finished(frame, ValidationError, <<>>)
             [] OTHER -> [frame EXCEPT !.pc = "validated"])
      /\ UNCHANGED <<coreVars, fileVars>>

\* line 26: const doc = A.from(json, options.actor)
StepFrom(c) ==
  LET frame == calls[c]
  IN  \E drawn \in IF frame.options.actor = NoActor
                    THEN RandomActors ELSE {frame.options.actor} :
        LET doc == EngineFrom(frame.value, drawn)
        IN  /\ frame.fn = "jsonToAutomerge" /\ frame.pc = "validated"
            /\ calls' = Stepped(c,
                 IF doc.ok
                 THEN [frame EXCEPT !.pc = "created", !.drawn = drawn, !.doc = doc]
                 ELSE Finished([frame EXCEPT !.drawn = drawn], EngineFromError, <<>>))
            /\ UNCHANGED <<coreVars, fileVars>>

\* line 27: return A.save(doc)
StepSave(c) ==
  LET frame == calls[c]
  IN  /\ frame.fn = "jsonToAutomerge" /\ frame.pc = "created"
      /\ calls' = Stepped(c, Finished(frame, NoError, EngineSave(DocToSave(c))))
      /\ UNCHANGED <<coreVars, fileVars>>

\* line 37-38: const doc = A.load(binary, options.actor); return doc
StepLoad(c) ==
  LET frame == calls[c]
      doc == EngineLoad(frame.bytes, frame.options.actor)
  IN  /\ frame.fn = "automergeToJson" /\ frame.pc = "entered"
      /\ calls' = Stepped(c,
           IF doc.ok THEN Finished(frame, NoError, doc.root)
           ELSE Finished(frame, EngineLoadError, Nothing))
      /\ UNCHANGED <<coreVars, fileVars>>

ParNext ==
  \E c \in CallIds :
    \/ EnterJsonToAutomerge(c)
    \/ EnterAutomergeToJson(c)
    \/ StepValidate(c)
    \/ StepFrom(c)
    \/ StepSave(c)
    \/ StepLoad(c)

ParSpec == ParInit /\ [][ParNext]_vars

\* ----------------------------------------- file operations, one after another
\* What the caller writes, where, and with which options.
FileValues == {WithNull, PlainObj(<<>>), Null, Arr(<<Num(1)>>), WithDate, Circular}
FileOptions ==
  {NoOptions, ValidateOnly, Options(ValidActor, "true"), Options(BadActor, "absent")}
WritePaths == {TestFile, MissingDirFile, ReadOnlyDirFile}

FileInit == CoreAtRest /\ NoCalls /\ FilesAtRest

\* await writeJsonAsAutomerge(value, path, options)
CallWriteJsonAsAutomerge ==
  \E value \in FileValues, path \in WritePaths, options \in FileOptions :
  \E drawn \in IF options.actor = NoActor THEN RandomActors ELSE {options.actor} :
    LET out == writeJsonAsAutomerge(files, value, path, options, drawn)
    IN  /\ files' = out.fs
        /\ fileOp' = [fn |-> "writeJsonAsAutomerge", path |-> path, value |-> value,
                      options |-> options, thrown |-> out.thrown,
                      result |-> Nothing, io |-> out.io, before |-> files[path],
                      prev |-> FailedWriteOf(fileOp)]
        /\ lastWrite' = IF out.thrown = NoError
                        THEN [lastWrite EXCEPT ![path] =
                                [value |-> value, bytes |-> out.binary,
                                 options |-> options, raced |-> FALSE]]
                        ELSE lastWrite
        /\ UNCHANGED <<coreVars, calls, tasks, cli>>

\* const restored = await readAutomergeAsJson(path, options)
CallReadAutomergeAsJson ==
  \E path \in Paths, actor \in {NoActor, ValidActor} :
    LET out == readAutomergeAsJson(files, path, Options(actor, "absent"))
    IN  /\ fileOp' = [fn |-> "readAutomergeAsJson", path |-> path, value |-> Nothing,
                      options |-> Options(actor, "absent"), thrown |-> out.thrown,
                      result |-> out.value, io |-> out.io, before |-> files[path],
                      prev |-> FailedWriteOf(fileOp)]
        /\ UNCHANGED <<coreVars, calls, files, lastWrite, tasks, cli>>

FileNext ==
  \/ CallWriteJsonAsAutomerge
  \/ CallReadAutomergeAsJson

FileSpec == FileInit /\ [][FileNext]_vars

\* ------------------------------------------- file operations pending together
\* Promise.all over writeJsonAsAutomerge / readAutomergeAsJson calls: each call
\* runs to its await, the runtime does the I/O of the pending calls in any
\* order, and a call whose I/O is done settles.
ConcValues == {WithNull, PlainObj(<<>>), Null}
ConcPaths == {TestFile, OtherFile}
ConcOptions == Options(ValidActor, "absent")

Writing(t, path) ==
  tasks[t].fn = "writeJsonAsAutomerge" /\ tasks[t].path = path
    /\ tasks[t].pc \in {"opening", "writing"}
WritePending(path) == \E t \in TaskIds : Writing(t, path)

ConcInit == CoreAtRest /\ NoCalls /\ FilesAtRest

\* writeJsonAsAutomerge(value, path, options) is called: line 52 runs, line 53
\* hands the bytes to Deno.writeFile and awaits
StartWrite(t) ==
  \E value \in ConcValues, path \in ConcPaths :
    LET encoded == jsonToAutomerge(value, ConcOptions, ConcOptions.actor)
    IN  /\ tasks[t].pc = "idle"
        /\ tasks' = [tasks EXCEPT ![t] =
             [IdleTask EXCEPT !.fn = "writeJsonAsAutomerge", !.path = path,
                              !.value = value, !.options = ConcOptions,
                              !.pc = IF encoded.thrown = NoError THEN "opening" ELSE "done",
                              !.bytes = encoded.binary, !.thrown = encoded.thrown]]
        /\ lastWrite' = [lastWrite EXCEPT ![path].raced = @ \/ WritePending(path)]
        /\ UNCHANGED <<coreVars, calls, files, fileOp, cli>>

\* the runtime opens the file of a pending write
OpenFile(t) ==
  LET opened == OpenTruncate(files, tasks[t].path)
  IN  /\ tasks[t].fn = "writeJsonAsAutomerge" /\ tasks[t].pc = "opening"
      /\ files' = opened.fs
      /\ tasks' = [tasks EXCEPT ![t].pc = IF opened.error = NoError THEN "writing" ELSE "done",
                                ![t].thrown = opened.error]
      /\ UNCHANGED <<coreVars, calls, lastWrite, fileOp, cli>>

\* the runtime writes the bytes of a pending write into the file it opened
WriteBytes(t) ==
  /\ tasks[t].fn = "writeJsonAsAutomerge" /\ tasks[t].pc = "writing"
  /\ files' = WriteAll(files, tasks[t].path, tasks[t].bytes)
  /\ lastWrite' = [lastWrite EXCEPT ![tasks[t].path] =
                     [value |-> tasks[t].value, bytes |-> tasks[t].bytes,
                      options |-> tasks[t].options, raced |-> @.raced]]
  /\ tasks' = [tasks EXCEPT ![t].pc = "done"]
  /\ UNCHANGED <<coreVars, calls, fileOp, cli>>

\* readAutomergeAsJson(path, options) is called: line 66 awaits Deno.readFile
StartRead(t) ==
  \E path \in ConcPaths :
    /\ tasks[t].pc = "idle"
    /\ tasks' = [tasks EXCEPT ![t] =
         [IdleTask EXCEPT !.fn = "readAutomergeAsJson", !.path = path,
                          !.options = ConcOptions, !.pc = "reading"]]
    /\ UNCHANGED <<coreVars, calls, files, lastWrite, fileOp, cli>>

\* the runtime reads the file of a pending read, and line 67 decodes the bytes;
\* the frame notes the value last written to the path, and whether the path
\* was at rest: written to, no write pending, never two writes pending together
ReadFile(t) ==
  LET out == readAutomergeAsJson(files, tasks[t].path, tasks[t].options)
      last == lastWrite[tasks[t].path]
  IN  /\ tasks[t].fn = "readAutomergeAsJson" /\ tasks[t].pc = "reading"
      /\ tasks' = [tasks EXCEPT ![t].pc = "done", ![t].thrown = out.thrown,
                                ![t].result = out.value, ![t].expect = last.value,
                                ![t].quiet = /\ last.value # Nothing
                                             /\ ~last.raced
                                             /\ ~WritePending(tasks[t].path)]
      /\ UNCHANGED <<coreVars, calls, files, lastWrite, fileOp, cli>>

\* the caller takes the outcome of a settled call
Settle(t) ==
  /\ tasks[t].pc = "done"
  /\ tasks' = [tasks EXCEPT ![t] = IdleTask]
  /\ UNCHANGED <<coreVars, calls, files, lastWrite, fileOp, cli>>

ConcNext ==
  \E t \in TaskIds :
    \/ StartWrite(t)
    \/ OpenFile(t)
    \/ WriteBytes(t)
    \/ StartRead(t)
    \/ ReadFile(t)
    \/ Settle(t)

ConcSpec == ConcInit /\ [][ConcNext]_vars

\* ------------------------------------------------------ the command line tool
\* JSON.stringify(value, null, gap): gap is "" or two spaces
RECURSIVE Indent(_, _)
Indent(gap, depth) == IF depth = 0 THEN "" ELSE gap \o Indent(gap, depth - 1)
RECURSIVE JsonStringify(_, _, _)
RECURSIVE StringifyItems(_, _, _, _)
RECURSIVE StringifyProps(_, _, _, _)
StringifyItems(items, i, gap, depth) ==
  IF i > Len(items) THEN ""
  ELSE (IF i > 1 THEN "," ELSE "")
         \o (IF gap = "" THEN "" ELSE "\n" \o Indent(gap, depth))
         \o JsonStringify(items[i], gap, depth)
         \o StringifyItems(items, i + 1, gap, depth)
StringifyProps(props, i, gap, depth) ==
  IF i > Len(props) THEN ""
  ELSE (IF i > 1 THEN "," ELSE "")
         \o (IF gap = "" THEN "" ELSE "\n" \o Indent(gap, depth))
         \o "\"" \o props[i].key \o "\":" \o (IF gap = "" THEN "" ELSE " ")
         \o JsonStringify(props[i].val, gap, depth)
         \o StringifyProps(props, i + 1, gap, depth)
JsonStringify(value, gap, depth) ==
  LET close == IF gap = "" THEN "" ELSE "\n" \o Indent(gap, depth)
  IN  CASE value.k = "boolean" -> IF value.b THEN "true" ELSE "false"
        [] value.k = "number" -> ToString(value.n)
        [] value.k = "string" -> "\"" \o value.s \o "\""
        [] value.k = "array" ->
             IF Len(value.items) = 0 THEN "[]"
             ELSE "[" \o StringifyItems(value.items, 1, gap, depth + 1) \o close \o "]"
        [] value.k = "object" ->
             IF Len(value.props) = 0 THEN "{}"
             ELSE "{" \o StringifyProps(value.props, 1, gap, depth + 1) \o close \o "}"
        [] OTHER -> "null"

\* What the tool is given as JSON text: the texts of some values, a text that
\* breaks off, and nothing at all.
TextValues == {WithNull, ConstructorKeyed, Null, Arr(<<Num(1)>>)}
BrokenText == "{\"a\": "
JsonTexts == { JsonStringify(v, "", 0) : v \in TextValues } \cup {BrokenText, ""}
\* JSON.parse(text)
SyntaxError == "SyntaxError: Unexpected end of JSON input"
JsonParse(text) ==
  IF \E v \in TextValues : JsonStringify(v, "", 0) = text
  THEN [thrown |-> NoError,
        value |-> CHOOSE v \in TextValues : JsonStringify(v, "", 0) = text]
  ELSE [thrown |-> SyntaxError, value |-> Undefined]

\* The files of a run: data.json holds the JSON text, missing.json is not
\* there, the test file holds a saved document.
DataJson == "data.json"
MissingJson == "missing.json"
SavedDocument == jsonToAutomerge(WithNull, NoOptions, CHOOSE a \in RandomActors : TRUE).binary
CliFiles == [InitialFiles EXCEPT ![TestFile] = File(SavedDocument)]
\* await Deno.readTextFile(path)
DenoReadTextFile(path, content) ==
  IF path = DataJson THEN [error |-> NoError, text |-> content]
  ELSE [error |-> NotFound, text |-> ""]
\* await Deno.writeTextFile(path, text)
DenoWriteTextFile(path, text) ==
  CASE DirState(path) = "missing" -> [error |-> NotFound]
    [] DirState(path) = "readonly" -> [error |-> PermissionDenied]
    [] OTHER -> [error |-> NoError]

\* Deno.args of a run
DashedArgs ==
  {"-h", "--help", "-i", "--input", "-o", "--output", "-a", "--actor",
   "-v", "--validate", "-t", "--test"}
CommandParts == {<<>>, <<"json2bin">>, <<"bin2json">>, <<"frobnicate">>}
InputParts(command) ==
  {<<>>}
    \cup (IF command = <<"bin2json">> THEN {} ELSE {<<"-i", p>> : p \in {DataJson, MissingJson}})
    \cup (IF command = <<"json2bin">> THEN {}
          ELSE {<<"--input", p>> : p \in {TestFile, EmptyFile, CorruptedFile, OtherFile}})
OutputParts == {<<>>, <<"-o", OtherFile>>, <<"--output", ReadOnlyDirFile>>}
ActorParts == {<<>>, <<"-a", BadActor>>}
FlagParts == {<<>>, <<"-v">>, <<"-t">>, <<"--validate", "--test">>, <<"-h">>, <<"-t", "-i">>}
Argvs ==
  UNION { { command \o input \o output \o actor \o flags :
              input \in InputParts(command), output \in OutputParts,
              actor \in ActorParts, flags \in FlagParts } :
          command \in CommandParts }

\* parseArgs(args): the loop from index i on
RECURSIVE parseArgsFrom(_, _, _, _)
parseArgsFrom(args, i, command, options) ==
  IF i > Len(args) THEN [command |-> command, options |-> options]
  ELSE LET arg == args[i]
           next == IF i + 1 <= Len(args) THEN args[i + 1] ELSE Absent
       IN  CASE arg \in {"-h", "--help"} ->
                  parseArgsFrom(args, i + 1, command, [options EXCEPT !.help = TRUE])
             [] arg \in {"-i", "--input"} ->
                  parseArgsFrom(args, i + 2, command, [options EXCEPT !.input = next])
             [] arg \in {"-o", "--output"} ->
                  parseArgsFrom(args, i + 2, command, [options EXCEPT !.output = next])
             [] arg \in {"-a", "--actor"} ->
                  parseArgsFrom(args, i + 2, command,
                                [options EXCEPT !.actor = IF next = Absent THEN NoActor ELSE next])
             [] arg \in {"-v", "--validate"} ->
                  parseArgsFrom(args, i + 1, command, [options EXCEPT !.validate = TRUE])
             [] arg \in {"-t", "--test"} ->
                  parseArgsFrom(args, i + 1, command, [options EXCEPT !.test = TRUE])
             [] OTHER ->
                  IF command = "" /\ arg \notin DashedArgs
                  THEN parseArgsFrom(args, i + 1, arg, options)
                  ELSE parseArgsFrom(args, i + 1, command, options)
parseArgs(args) == parseArgsFrom(args, 1, "", NoCliOptions)

\* one call the run made and whether it returned
Step(call, ok) == [call |-> call, ok |-> ok]
\* what went to standard output: bytes or text
Bytes(b) == [kind |-> "bytes", bytes |-> b, text |-> ""]
Text(t) == [kind |-> "text", bytes |-> <<>>, text |-> t]
\* Deno.exit(code), and the end of main
Exit(c, code) == [c EXCEPT !.pc = "exited", !.exit = {code}]
\* console.error(message); Deno.exit(0)
FailWithZero(c, message) ==
  Exit([c EXCEPT !.stderr = Append(@, message)], 0)
\* console.error(message); Deno.exit(1)
Fail(c, message) ==
  Exit([c EXCEPT !.stderr = Append(@, message)], 1)
\* a rejection nothing catches: the runtime prints it and exits with 1
Uncaught(c, error) ==
  Exit([c EXCEPT !.stderr = Append(@, "error: Uncaught (in promise) " \o error)], 1)

\* the catch of JSON.parse as it would be without Deno.exit
OnParseErrorContinue(c, message) ==
  [c EXCEPT !.stderr = Append(@, message), !.value = Undefined, !.pc = "convert"]
\* json2bin, the catch of JSON.parse
OnParseError(c, message) == Fail(c, message)

\* the report of the compatibility test as it would be if FAIL ended the run
\* with an error
ReportCompatibilityStrict(c, compatible) ==
  IF compatible
  THEN Exit([c EXCEPT !.stderr = Append(@, "Repo compatibility test: PASS")], 0)
  ELSE Fail(c, "Repo compatibility test: FAIL")
\* json2bin, console.error of the verdict; json2bin and main return
ReportCompatibility(c, compatible) ==
  Exit([c EXCEPT !.stderr = Append(@, "Repo compatibility test: "
                                       \o (IF compatible THEN "PASS" ELSE "FAIL"))], 0)

CliInit ==
  /\ CoreAtRest /\ NoCalls
  /\ files = CliFiles
  /\ lastWrite = [p \in Paths |-> NoWrite]
  /\ fileOp = NoFileOp
  /\ tasks = [t \in TaskIds |-> IdleTask]
  /\ \E argv \in Argvs, text \in JsonTexts, works \in BOOLEAN :
       cli = [NoRun EXCEPT !.argv = argv, !.stdin = text, !.works = works,
                           !.pc = "main"]

\* main(): parseArgs, help, the switch on the command
Main ==
  LET parsed == parseArgs(cli.argv)
      c == [cli EXCEPT !.command = parsed.command, !.options = parsed.options]
  IN  /\ cli.pc = "main"
      /\ cli' = CASE parsed.options.help \/ parsed.command = "" ->
                       Exit([c EXCEPT !.stdout = Append(@, Text("HELP_TEXT"))], 0)
                  [] parsed.command = "json2bin" -> [c EXCEPT !.pc = "read"]
                  [] parsed.command = "bin2json" -> [c EXCEPT !.pc = "load"]
                  [] OTHER -> Fail(c, "Error: Unknown command")
      /\ UNCHANGED <<coreVars, calls, files, lastWrite, fileOp, tasks>>

\* json2bin: the text, from the input file or from standard input
ReadJsonText ==
  LET read == DenoReadTextFile(cli.options.input, cli.stdin)
  IN  /\ cli.pc = "read"
      /\ cli' = CASE cli.options.input = Absent ->
                       [cli EXCEPT !.text = cli.stdin, !.pc = "parse",
                                   !.trace = Append(@, Step("readStdin", TRUE))]
                  [] read.error = NoError ->
                       [cli EXCEPT !.text = read.text, !.pc = "parse",
                                   !.trace = Append(@, Step("readTextFile", TRUE))]
                  [] OTHER ->
                       Uncaught([cli EXCEPT !.trace = Append(@, Step("readTextFile", FALSE))],
                                read.error)
      /\ UNCHANGED <<coreVars, calls, files, lastWrite, fileOp, tasks>>

\* json2bin: JSON.parse and its catch
ParseJsonText ==
  LET parsed == JsonParse(cli.text)
      c == [cli EXCEPT !.trace = Append(@, Step("JSON.parse", parsed.thrown = NoError))]
  IN  /\ cli.pc = "parse"
      /\ cli' = IF parsed.thrown = NoError
                THEN [c EXCEPT !.value = parsed.value, !.pc = "convert"]
                ELSE OnParseError(c, "Error parsing JSON")
      /\ UNCHANGED <<coreVars, calls, files, lastWrite, fileOp, tasks>>

\* json2bin: jsonToAutomerge(jsonData, conversionOptions) inside the try
ConvertJson ==
  LET options == Options(cli.options.actor,
                         IF cli.options.validate THEN "true" ELSE "absent")
  IN  \E drawn \in IF options.actor = NoActor THEN RandomActors ELSE {options.actor} :
        LET out == jsonToAutomerge(cli.value, options, drawn)
            c == [cli EXCEPT !.trace = Append(@, Step("jsonToAutomerge", out.thrown = NoError))]
        IN  /\ cli.pc = "convert"
            /\ cli' = IF out.thrown = NoError
                      THEN [c EXCEPT !.binary = out.binary, !.pc = "write"]
                      ELSE Fail(c, "Error during conversion")
            /\ UNCHANGED <<coreVars, calls, files, lastWrite, fileOp, tasks>>

\* json2bin: the binary goes to the output file or to standard output; without
\* -t json2bin and main return
WriteBinary ==
  LET write == DenoWriteFile(files, cli.options.output, cli.binary)
      after(c) == IF cli.options.test THEN [c EXCEPT !.pc = "test"] ELSE Exit(c, 0)
  IN  /\ cli.pc = "write"
      /\ IF cli.options.output = Absent
         THEN /\ cli' = after([cli EXCEPT !.stdout = Append(@, Bytes(cli.binary)),
                                          !.trace = Append(@, Step("stdout.write", TRUE))])
              /\ UNCHANGED files
         ELSE IF write.error = NoError
         THEN /\ cli' = after([cli EXCEPT !.stderr = Append(@, "Converted JSON to Automerge binary"),
                                          !.trace = Append(@, Step("writeFile", TRUE))])
              /\ files' = write.fs
         ELSE /\ cli' = Fail([cli EXCEPT !.trace = Append(@, Step("writeFile", FALSE))],
                             "Error during conversion")
              /\ files' = write.fs
      /\ UNCHANGED <<coreVars, calls, lastWrite, fileOp, tasks>>

\* json2bin -t: testRepoCompatibility(binary) and the report of its verdict
TestBinary ==
  LET out == testRepoCompatibility(cli.binary, cli.works)
      c == [cli EXCEPT !.trace = Append(@, Step("testRepoCompatibility",
                                               out.settled # "rejected"))]
  IN  /\ cli.pc = "test"
      /\ cli' = IF out.settled = "rejected"
                THEN Fail(c, "Error during conversion")
                ELSE ReportCompatibility(c, out.settled = "true")
      /\ UNCHANGED <<coreVars, calls, files, lastWrite, fileOp, tasks>>

\* bin2json: the input is required; readAutomergeAsJson(input, {actor}) inside
\* the try
LoadBinary ==
  LET out == readAutomergeAsJson(files, cli.options.input,
                                 Options(cli.options.actor, "absent"))
      c == [cli EXCEPT !.trace = Append(@, Step("readAutomergeAsJson", out.thrown = NoError))]
  IN  /\ cli.pc = "load"
      /\ cli' = CASE cli.options.input = Absent ->
                       Fail(cli, "Error: Input file required for bin2json command")
                  [] out.thrown = NoError -> [c EXCEPT !.value = out.value, !.pc = "print"]
                  [] OTHER -> Fail(c, "Error during conversion")
      /\ UNCHANGED <<coreVars, calls, files, lastWrite, fileOp, tasks>>

\* bin2json: JSON.stringify(jsonData, null, 2) goes to the output file or to
\* standard output; bin2json and main return
PrintJson ==
  LET jsonText == JsonStringify(cli.value, "  ", 0)
      write == DenoWriteTextFile(cli.options.output, jsonText)
  IN  /\ cli.pc = "print"
      /\ cli' = CASE cli.options.output = Absent ->
                       Exit([cli EXCEPT !.text = jsonText,
                                        !.stdout = Append(@, Text(jsonText)),
                                        !.trace = Append(@, Step("console.log", TRUE))], 0)
                  [] write.error = NoError ->
                       Exit([cli EXCEPT !.text = jsonText,
                                        !.stderr = Append(@, "Converted Automerge binary to JSON"),
                                        !.trace = Append(@, Step("writeTextFile", TRUE))], 0)
                  [] OTHER ->
                       Fail([cli EXCEPT !.text = jsonText,
                                        !.trace = Append(@, Step("writeTextFile", FALSE))],
                            "Error during conversion")
      /\ UNCHANGED <<coreVars, calls, files, lastWrite, fileOp, tasks>>

CliNext ==
  \/ Main
  \/ ReadJsonText
  \/ ParseJsonText
  \/ ConvertJson
  \/ WriteBinary
  \/ TestBinary
  \/ LoadBinary
  \/ PrintJson

CliSpec == CliInit /\ [][CliNext]_vars

\* ------------------------------------------------------- what the claims speak of
\* A plain JSON value: null, boolean, number, string, sequence, plain mapping.
RECURSIVE IsPlainJson(_)
IsPlainJson(v) ==
  CASE v.k \in {"null", "boolean", "number", "string"} -> TRUE
    [] v.k = "array" -> \A i \in 1..Len(v.items) : IsPlainJson(v.items[i])
    [] v.k = "object" ->
         v.class = "Object" /\ \A i \in 1..Len(v.props) : IsPlainJson(v.props[i].val)
    [] OTHER -> FALSE

\* Built only from booleans, numbers, strings, sequences and plain mappings.
RECURSIVE IsPlainNesting(_)
IsPlainNesting(v) ==
  CASE v.k \in {"boolean", "number", "string"} -> TRUE
    [] v.k = "array" -> \A i \in 1..Len(v.items) : IsPlainNesting(v.items[i])
    [] v.k = "object" ->
         v.class = "Object" /\ \A i \in 1..Len(v.props) : IsPlainNesting(v.props[i].val)
    [] OTHER -> FALSE

\* Holds a Date, a RegExp, a function or a symbol at some depth.
RECURSIVE ContainsExotic(_)
ContainsExotic(v) ==
  CASE v.k \in {"function", "symbol"} -> TRUE
    [] v.k = "array" -> \E i \in 1..Len(v.items) : ContainsExotic(v.items[i])
    [] v.k = "object" ->
         \/ v.class \in {"Date", "RegExp"}
         \/ \E i \in 1..Len(v.props) : ContainsExotic(v.props[i].val)
    [] OTHER -> FALSE

\* Holds a reference back to a container it sits in.
RECURSIVE ContainsCycle(_)
ContainsCycle(v) ==
  CASE v.k = "ref" -> TRUE
    [] v.k = "array" -> \E i \in 1..Len(v.items) : ContainsCycle(v.items[i])
    [] v.k = "object" -> \E i \in 1..Len(v.props) : ContainsCycle(v.props[i].val)
    [] OTHER -> FALSE

\* Deep equality: order-sensitive for sequences, order-insensitive for the keys
\* of mappings.
RECURSIVE DeepEqual(_, _)
DeepEqual(x, y) ==
  CASE x.k # y.k -> FALSE
    [] x.k = "array" ->
         /\ Len(x.items) = Len(y.items)
         /\ \A i \in 1..Len(x.items) : DeepEqual(x.items[i], y.items[i])
    [] x.k = "object" ->
         /\ x.class = y.class
         /\ Len(x.props) = Len(y.props)
         /\ \A i \in 1..Len(x.props) :
              \E j \in 1..Len(y.props) :
                /\ x.props[i].key = y.props[j].key
                /\ DeepEqual(x.props[i].val, y.props[j].val)
    [] OTHER -> x = y

Encoded == op = "jsonToAutomerge"
Decoded == op = "automergeToJson"
Probed == op = "validateAutomergeBinary"
\* the last call decoded a binary that jsonToAutomerge returned, with the actor
\* option the binary was made with (automergeToJson reads no other option)
DecodedOwnBinary == Decoded /\ origin.src = "encode" /\ origin.opts.actor = opts.actor

\* ------------------------------------------------------------------ claims

\* C1: round-trip law.  For every plain JSON value v that jsonToAutomerge
\* accepts with options o, automergeToJson(jsonToAutomerge(v, o), o) returns
\* a value deeply equal to v.
C1_RoundTrip ==
  (DecodedOwnBinary /\ IsPlainJson(json))
    => (thrown = NoError /\ DeepEqual(decoded, json))

\* C2: when validateJson is true and the validator rejects the value,
\* jsonToAutomerge throws "Invalid JSON object: must be a plain object or
\* array" and has made no engine call: no document was created or saved, and
\* the caller got no binary.
C2_RejectedBeforeEngine ==
  (Encoded /\ opts.validateJson = "true" /\ isValidJsonObject(json) = "false")
    => /\ thrown = ValidationError
       /\ engineCalls = <<>>
       /\ handed = Nothing
       /\ origin.src = "untrusted"

\* {date: new Date()} with validateJson: true was refused
C2_Witness ==
  /\ Encoded /\ json = WithDate /\ opts.validateJson = "true"
  /\ thrown = ValidationError

\* C3: when validateJson is absent or false the validator is not run, the
\* value goes to A.from as it is, and the call ends as the engine ends it: the
\* saved document (never empty) if the engine takes the value, the engine's
\* error if not.
C3_UnvalidatedIsEngineOutcome ==
  (Encoded /\ opts.validateJson \in {"absent", "false"})
    => /\ verdict = "not_run"
       /\ handed = json
       /\ \E actor \in IF opts.actor = NoActor THEN RandomActors ELSE {opts.actor} :
            LET doc == EngineFrom(json, actor)
            IN  IF doc.ok
                THEN thrown = NoError /\ binary = EngineSave(doc) /\ Len(binary) > 0
                ELSE thrown = EngineFromError

\* {date: new Date()} without validation came back as a non-empty binary
C3_Witness ==
  /\ Encoded /\ json = WithDate /\ opts.validateJson = "absent"
  /\ isValidJsonObject(json) = "false"
  /\ thrown = NoError /\ Len(binary) > 0

\* C4: the validator takes null as valid and undefined as invalid:
\* jsonToAutomerge(null, {validateJson: true}) returns a binary,
\* jsonToAutomerge(undefined, {validateJson: true}) throws the validation error.
C4_NullValidUndefinedInvalid ==
  (Encoded /\ opts = ValidateOnly)
    => /\ json = Null => thrown = NoError /\ origin.src = "encode"
       /\ json = Undefined => thrown = ValidationError

\* C5: with validateJson: true every plain JSON value, also one with null
\* leaves such as {nullValue: null}, is converted, and converting the binary
\* back gives a value deeply equal to it.
C5_ValidatedRoundTrip ==
  IsPlainJson(json)
    => /\ (Encoded /\ opts = ValidateOnly) => thrown = NoError
       /\ (DecodedOwnBinary /\ origin.opts = ValidateOnly)
            => (thrown = NoError /\ DeepEqual(decoded, json))

\* C6: the validator returns false for every value that holds a Date, a
\* RegExp, a function or a symbol at any depth, inside mappings, sequences or
\* both.
C6_ExoticRejected ==
  (Encoded /\ opts.validateJson = "true" /\ ContainsExotic(json))
    => verdict = "false"

\* C7: the validator returns true for every value built only from booleans,
\* numbers, strings, sequences and plain mappings; a sequence is valid iff all
\* its elements are, a plain mapping iff all its values are.
C7_PlainAccepted ==
  (Encoded /\ opts.validateJson = "true")
    => /\ IsPlainNesting(json) => verdict = "true"
       /\ json.k = "array"
            => (verdict = "true"
                  <=> \A i \in 1..Len(json.items) :
                        isValidJsonObject(json.items[i]) = "true")
       /\ (json.k = "object" /\ json.class = "Object")
            => (verdict = "true"
                  <=> \A i \in 1..Len(json.props) :
                        isValidJsonObject(json.props[i].val) = "true")

\* C8: the validator never throws: whatever the value, it returns true or
\* false, and only jsonToAutomerge makes an error of a false verdict.
C8_ValidatorNeverThrows ==
  (Encoded /\ opts.validateJson = "true")
    => /\ verdict \in {"true", "false"}
       /\ thrown = ValidationError <=> verdict = "false"

\* C9: automergeToJson throws when the binary is empty, truncated or no
\* document, and its outcome is the verdict of the engine's load.
C9_BadBinaryThrows ==
  Decoded
    => /\ thrown = NoError <=> EngineLoad(binary, opts.actor).ok
       /\ origin.src = "untrusted" => thrown = EngineLoadError

\* C10: validateAutomergeBinary never throws and returns true exactly when
\* automergeToJson(bytes, {}) returns; so false for the empty binary and for
\* [1, 2, 3, 4, 5], true for every binary jsonToAutomerge returned.
C10_ProbeIsDecodeVerdict ==
  Probed
    => /\ thrown = NoError
       /\ probe \in {"true", "false"}
       /\ probe = "true" <=> automergeToJson(binary, NoOptions).thrown = NoError
       /\ binary \in {<<>>, <<1, 2, 3, 4, 5>>} => probe = "false"
       /\ origin.src = "encode" => probe = "true"

C12_ActorThreading ==
  /\ (Encoded /\ engineCalls # <<>>) => engineActor = opts.actor
  /\ Decoded => engineActor = opts.actor
  /\ (DecodedOwnBinary /\ opts.actor = ValidActor)
       => (thrown = NoError /\ DeepEqual(decoded, json))

\* C13: when the engine refuses the value or the actor, jsonToAutomerge ends
\* with the engine's error after that one engine call and the caller gets no
\* binary; no other actor or value is tried.
C13_EngineFailureNotMasked ==
  (Encoded /\ engineCalls # <<>>
     /\ \A actor \in IF opts.actor = NoActor THEN RandomActors ELSE {opts.actor} :
          ~EngineFrom(json, actor).ok)
    => /\ thrown = EngineFromError
       /\ engineCalls = <<"from">>
       /\ origin.src = "untrusted"
       /\ binary \in UntrustedBinaries

\* jsonToAutomerge({a: null}, {actor: "not-a-valid-hex-string"}) threw
C13_Witness ==
  /\ Encoded /\ json = WithNull /\ opts = Options(BadActor, "absent")
  /\ thrown = EngineFromError

\* C14: the same call made twice ends the same way both times, and that way is
\* the engine's verdict on the value and the actor; with the empty actor and
\* with the actor of 1000 characters a plain object is converted.
C14_EncodeDeterministic ==
  op = "jsonToAutomergeAgain"
    => /\ repeat.thrown = thrown
       /\ verdict \in {"not_run", "true"}
            => \A actor \in IF opts.actor = NoActor THEN RandomActors ELSE {opts.actor} :
                 (thrown = NoError) <=> EngineFrom(json, actor).ok
       /\ (opts.actor \in EdgeActors /\ IsPlainJson(json) /\ json.k = "object")
            => (thrown = NoError /\ Len(repeat.binary) > 0)

\* {a: null} was converted twice with the actor of 1000 characters
C14_Witness ==
  /\ op = "jsonToAutomergeAgain" /\ json = WithNull /\ opts.actor = LongActor
  /\ thrown = NoError /\ repeat.thrown = NoError

\* C15: the core keeps no state between or across calls: however the steps of
\* invocations that are in flight together are interleaved, each invocation
\* gives back what the same call gives when it runs alone.
C15_Stateless ==
  \A c \in CallIds :
    calls[c].pc = "done"
      => IF calls[c].fn = "jsonToAutomerge"
         THEN LET alone == jsonToAutomerge(calls[c].value, calls[c].options, calls[c].drawn)
              IN  /\ calls[c].out.thrown = alone.thrown
                  /\ calls[c].out.result = alone.binary
         ELSE LET alone == automergeToJson(calls[c].bytes, calls[c].options)
              IN  /\ calls[c].out.thrown = alone.thrown
                  /\ calls[c].out.result = alone.value

\* two conversions of different values ran interleaved and both returned
C15_Witness ==
  \E c, d \in CallIds :
    /\ c # d
    /\ calls[c].pc = "done" /\ calls[d].pc = "done"
    /\ calls[c].mixed /\ calls[d].mixed
    /\ calls[c].fn = "jsonToAutomerge" /\ calls[d].fn = "jsonToAutomerge"
    /\ calls[c].out.thrown = NoError /\ calls[d].out.thrown = NoError
    /\ calls[c].value # calls[d].value

\* the last awaited file operation
Wrote == fileOp.fn = "writeJsonAsAutomerge"
Read == fileOp.fn = "readAutomergeAsJson"
IOErrors == {NotFound, PermissionDenied}

\* C16: after writes to a path that were awaited one after another, the file
\* holds exactly the bytes jsonToAutomerge gave for the last of them, and
\* readAutomergeAsJson of the path resolves to a value deeply equal to the
\* value of that write.
C16_FileRoundTrip ==
  \A p \in Paths :
    lastWrite[p] # NoWrite
      => /\ files[p] = File(lastWrite[p].bytes)
         /\ (Read /\ fileOp.path = p)
              => (fileOp.thrown = NoError /\ DeepEqual(fileOp.result, lastWrite[p].value))

\* C19: a read of a path with no file, a write into a missing or read-only
\* directory, and a read of a file that is empty or no document are rejected
\* after one I/O call, and resolve to nothing.
C19_PersistenceFailures ==
  /\ (Read /\ ~files[fileOp.path].exists)
       => (fileOp.thrown \in IOErrors /\ fileOp.io = 1 /\ fileOp.result = Nothing)
  /\ (Wrote /\ fileOp.io > 0 /\ DirState(fileOp.path) # "writable")
       => (fileOp.thrown \in IOErrors /\ fileOp.io = 1)
  /\ (Read /\ files[fileOp.path].exists
         /\ (files[fileOp.path].bytes = <<>>
               \/ files[fileOp.path].bytes = <<1, 2, 3, 4, 5>>))
       => (fileOp.thrown = EngineLoadError /\ fileOp.io = 1 /\ fileOp.result = Nothing)

\* The four kinds of error, by what raised the error.
KindOf(error) ==
  CASE error = ValidationError -> "ValidationError"
    [] error = EngineFromError -> "EncodeError"
    [] error = EngineLoadError -> "DecodeError"
    [] error \in IOErrors -> "IOError"
    [] OTHER -> "none of the four"

\* C20: every failure reaches the caller as a ValidationError (the validator
\* refused the value), an EncodeError (the engine refused value or actor), a
\* DecodeError (the bytes are empty, cut short or no document) or an IOError,
\* and the error tells which.
C20_FourErrorKinds ==
  /\ fileOp.thrown # NoError
       => KindOf(fileOp.thrown) \in {"ValidationError", "EncodeError", "DecodeError", "IOError"}
  /\ (Wrote /\ fileOp.options.validateJson = "true"
         /\ isValidJsonObject(fileOp.value) # "true")
       => KindOf(fileOp.thrown) = "ValidationError"
  /\ (Read /\ files[fileOp.path].exists /\ files[fileOp.path].bytes = <<>>)
       => KindOf(fileOp.thrown) = "DecodeError"

\* C17: file operations on different paths do not disturb one another: with
\* writes to paths that never had two writes pending together, a read of a
\* path that has no write pending resolves to the value written to that path,
\* whatever is pending on other paths.
C17_DistinctPathsIndependent ==
  \A t \in TaskIds :
    (tasks[t].fn = "readAutomergeAsJson" /\ tasks[t].pc = "done" /\ tasks[t].quiet)
      => (tasks[t].thrown = NoError /\ DeepEqual(tasks[t].result, tasks[t].expect))

\* C18: writes to one path that are pending together are not put in order by
\* the core, and when they have all settled the file holds the bytes of the
\* write that reached it last.
C18_LastWriterWins ==
  \A path \in ConcPaths :
    (lastWrite[path].value # Nothing /\ ~WritePending(path))
      => files[path] = File(lastWrite[path].bytes)

\* Everything in v other than references back into it is something the
\* validator takes: booleans, numbers, strings, sequences, plain mappings.
RECURSIVE ValidBesidesCycles(_)
ValidBesidesCycles(v) ==
  CASE v.k \in {"boolean", "number", "string", "ref"} -> TRUE
    [] v.k = "array" -> \A i \in 1..Len(v.items) : ValidBesidesCycles(v.items[i])
    [] v.k = "object" ->
         /\ ConstructorOf(v) \in {"Object", "undefined"}
         /\ \A i \in 1..Len(v.props) : ValidBesidesCycles(v.props[i].val)
    [] OTHER -> FALSE

\* C24 as stated: the validator has no cycle detection; on every value that
\* holds a reference cycle of plain mappings or sequences it does not end with
\* a boolean, on every value without a cycle it does.
C24_CycleNeverTerminates ==
  (Encoded /\ opts.validateJson = "true")
    => (ContainsCycle(json) <=> verdict = "overflow")

\* C24 amended: the validator has no cycle detection; it ends with a boolean
\* on every value without a cycle, it does not end with a boolean on a value
\* with a cycle in which all else is valid, and when it does not end with a
\* boolean the value holds a cycle.  (A cyclic value with an invalid member
\* that is met before the cycle is entered again gets false.)
C24_CycleOverflowsUnlessRefusedFirst ==
  (Encoded /\ opts.validateJson = "true")
    => /\ ~ContainsCycle(json) => verdict \in {"true", "false"}
       /\ (ContainsCycle(json) /\ ValidBesidesCycles(json)) => verdict = "overflow"
       /\ verdict = "overflow" => (ContainsCycle(json) /\ thrown = StackOverflow)

\* circular = {name: "test"}; circular.self = circular, inside an array, with
\* validateJson: true
C24_Witness ==
  /\ Encoded /\ opts.validateJson = "true" /\ json = Arr(<<Circular>>)
  /\ verdict = "overflow"

\* C25: with validation off a value that holds a reference cycle is refused
\* by the engine: jsonToAutomerge ends with the engine's error, the validator
\* was not run, and the caller has no binary.
C25_EngineRefusesCycle ==
  (Encoded /\ opts.validateJson \in {"absent", "false"} /\ ContainsCycle(json))
    => /\ thrown = EngineFromError
       /\ verdict = "not_run"
       /\ engineCalls = <<"from">>
       /\ origin.src = "untrusted"

\* jsonToAutomerge(circular) threw
C25_Witness ==
  /\ Encoded /\ json = Circular /\ opts = NoOptions
  /\ thrown = EngineFromError

\* C27: for a value the validator accepts, jsonToAutomerge with validateJson:
\* true ends as it ends without validation: the value goes to A.from as it
\* is, with the actor given, and the binary is the engine's for that value
\* and actor, or the error is the engine's.
C27_ValidationTransparent ==
  (Encoded /\ opts.validateJson = "true" /\ isValidJsonObject(json) = "true")
    => /\ handed = json
       /\ engineActor = opts.actor
       /\ \E actor \in IF opts.actor = NoActor THEN RandomActors ELSE {opts.actor} :
            LET doc == EngineFrom(json, actor)
            IN  IF doc.ok
                THEN thrown = NoError /\ binary = EngineSave(doc)
                ELSE thrown = EngineFromError

\* {a: 1, b: 42} was converted with validateJson: true and the fixtures' actor
C27_Witness ==
  /\ Encoded /\ opts = Options(ValidActor, "true")
  /\ json = PlainObj(<<Prop("a", Sibling), Prop("b", Num(42))>>)
  /\ thrown = NoError /\ verdict = "true"

\* C28: the validator's verdict on a plain mapping depends on its values only:
\* a mapping parsed from JSON text is accepted when all its values are valid,
\* whatever its keys are called.
C28_KeyNamesDoNotMatter ==
  (Encoded /\ opts.validateJson = "true"
     /\ json.k = "object" /\ json.class = "Object"
     /\ \A i \in 1..Len(json.props) : isValidJsonObject(json.props[i].val) = "true")
    => verdict = "true"

Tested == op = "testRepoCompatibility"

\* C23: testRepoCompatibility never rejects; for a binary that jsonToAutomerge
\* returned it resolves to true wherever a repo can be made; it resolves to
\* false when making the repo throws or importing the binary throws.
C23_RepoCompatible ==
  Tested
    => /\ compat.settled \in {"true", "false"}
       /\ (origin.src = "encode" /\ compat.works) => compat.settled = "true"
       /\ (~compat.works \/ ~EngineLoad(binary, NoActor).ok) => compat.settled = "false"

\* the binary of jsonToAutomerge({a: null}) was imported and the handle was ready
C23_Witness ==
  /\ Tested /\ origin.src = "encode" /\ json = WithNull
  /\ compat = [works |-> TRUE, settled |-> "true",
               steps |-> <<"new Repo", "import", "isReady">>]

\* ---- the command line tool
Exited == cli.pc = "exited"
Made(call) == \E i \in 1..Len(cli.trace) : cli.trace[i] = Step(call, TRUE)
Failed(call) == \E i \in 1..Len(cli.trace) : cli.trace[i] = Step(call, FALSE)
MadeBefore(call, i) == \E j \in 1..(i - 1) : cli.trace[j] = Step(call, TRUE)
HelpShown == cli.stdout = <<Text("HELP_TEXT")>>
Json2BinDone ==
  /\ cli.command = "json2bin" /\ Made("jsonToAutomerge")
  /\ Made("writeFile") \/ Made("stdout.write")
Bin2JsonDone ==
  /\ cli.command = "bin2json" /\ Made("readAutomergeAsJson")
  /\ Made("writeTextFile") \/ Made("console.log")

\* C21: the tool exits with a code other than 0 when a step of either command
\* failed (unreadable input, JSON that does not parse, a conversion or decode
\* error, an output that cannot be written), when bin2json has no input and
\* when the command is unknown; it exits with 0 only after help was shown or
\* the command's output was written.
C21_FailureExitsNonZero ==
  Exited
    => /\ cli.exit \in {{0}, {1}}
       /\ (\E i \in 1..Len(cli.trace) : ~cli.trace[i].ok) => cli.exit # {0}
       /\ (~cli.options.help /\ cli.command \notin {"", "json2bin", "bin2json"})
            => cli.exit # {0}
       /\ (~cli.options.help /\ cli.command = "bin2json" /\ cli.options.input = Absent)
            => cli.exit # {0}
       /\ cli.exit = {0} => (HelpShown \/ Json2BinDone \/ Bin2JsonDone)

\* json2bin -o readonly/test.automerge: the conversion was made, the write was
\* refused, the tool exited with 1
C21_Witness ==
  /\ Exited /\ cli.exit = {1}
  /\ cli.options.output = ReadOnlyDirFile
  /\ Made("jsonToAutomerge") /\ Failed("writeFile")

C29_TestAfterWriteReportOnly ==
  /\ \A i \in 1..Len(cli.trace) :
       cli.trace[i].call = "testRepoCompatibility"
         => /\ i > 1
            /\ cli.trace[i - 1] \in {Step("writeFile", TRUE), Step("stdout.write", TRUE)}
            /\ cli.options.test
  /\ (Made("testRepoCompatibility") \/ Failed("testRepoCompatibility"))
       => /\ Exited /\ cli.exit = {0}
          /\ cli.stderr[Len(cli.stderr)] =
               "Repo compatibility test: " \o (IF cli.works THEN "PASS" ELSE "FAIL")
          /\ IF cli.options.output = Absent
             THEN cli.stdout = <<Bytes(cli.binary)>> /\ files = CliFiles
             ELSE /\ cli.stdout = <<>>
                  /\ files = [CliFiles EXCEPT ![cli.options.output] = File(cli.binary)]
  /\ (Exited /\ Json2BinDone /\ cli.options.test) => Made("testRepoCompatibility")

\* json2bin -o other.automerge -t where no repo can be made: FAIL was printed,
\* the file holds the binary, the tool exited with 0
C29_Witness ==
  /\ Exited /\ cli.exit = {0} /\ ~cli.works
  /\ cli.options.output = OtherFile
  /\ Made("testRepoCompatibility")
  /\ cli.stderr[Len(cli.stderr)] = "Repo compatibility test: FAIL"
  /\ files[OtherFile] = File(cli.binary) /\ cli.binary # <<>>

====
